---- MODULE Spec2Model ----
(***************************************************************************)
(* The BSData importer of Warboard (scripts/bsdata-importer.py): the      *)
(* extraction of a normalized dataset from a BSData catalog document and  *)
(* the reconciliation of that dataset with the stored Warboard data file. *)
(*                                                                         *)
(* Text is a sequence of one-character strings, so that int(), float(),   *)
(* str(), re.sub, the `in` substring test and the ordering of names are   *)
(* computed character by character, as Python computes them.  A Python    *)
(* dict is a sequence of <<key, value>> pairs with pairwise distinct keys, *)
(* in insertion order.  None is the empty sequence where a value v is     *)
(* <<v>> (the result of dict.get).  An XML element is a record            *)
(* [tag, attrib, children]; attrib is a record of texts.                  *)
(*                                                                         *)
(* Profiles (stats, weapons, abilities, invulnerable save, descriptions)  *)
(* are read by no operation modelled here other than to fill fields that  *)
(* nothing else reads; the records below carry id, name, points, keywords *)
(* and rule_name.  Attribute values handed to int() and float() are       *)
(* numerals those functions accept; on any other text the run aborts with *)
(* ValueError before anything is returned.                                *)
(***************************************************************************)
EXTENDS Integers, Sequences, FiniteSets, TLC

VARIABLES
    pc,          \* the operation that ran last
    entry_elem,  \* the entry element handed to an extractor
    points,      \* extract_points_scaling's return value
    keywords,    \* extract_keywords' return value
    root,        \* the catalog document
    result,      \* parse_bsdata_catalog's return value
    bsdata,      \* the fresh dataset handed to compare_data and sync_points
    warboard,    \* the content of the stored data file (warboard_path)
    comparison,  \* compare_data's return value
    updated,     \* sync_points' returned dataset
    changes      \* sync_points' returned change log

vars == <<pc, entry_elem, points, keywords, root, result, bsdata, warboard,
          comparison, updated, changes>>

-----------------------------------------------------------------------------
(* Text *)

None == <<>>

Some(v) == <<v>>

Digits == <<"0", "1", "2", "3", "4", "5", "6", "7", "8", "9">>

IsDigit(c) == \E i \in 1..Len(Digits) : Digits[i] = c

DigitVal(c) == (CHOOSE i \in 1..Len(Digits) : Digits[i] = c) - 1

\* Code-point order of the characters that occur in names.
Alphabet ==
    <<"\t", " ", "'", "(", ")", "-", ".", "0", "1", "2", "3", "4", "5", "6", "7",
      "8", "9", ":", ">", "A", "B", "C", "D", "E", "F", "G", "H", "I", "J", "K",
      "L", "M", "N", "O", "P", "Q", "R", "S", "T", "U", "V", "W", "X", "Y", "Z",
      "a", "b", "c", "d", "e", "f", "g", "h", "i", "j", "k", "l", "m", "n", "o",
      "p", "q", "r", "s", "t", "u", "v", "w", "x", "y", "z">>

Ord(c) == CHOOSE i \in 1..Len(Alphabet) : Alphabet[i] = c

\* Python's str < str: lexicographic by code point, a proper prefix first.
RECURSIVE StrLess(_, _)
StrLess(a, b) ==
    IF b = <<>> THEN FALSE
    ELSE IF a = <<>> THEN TRUE
    ELSE IF a[1] = b[1] THEN StrLess(Tail(a), Tail(b))
    ELSE Ord(a[1]) < Ord(b[1])

\* sub in s
Contains(sub, s) ==
    \E i \in 1..(Len(s) - Len(sub) + 1) : SubSeq(s, i, i + Len(sub) - 1) = sub

StartsWith(s, prefix) ==
    Len(s) >= Len(prefix) /\ SubSeq(s, 1, Len(prefix)) = prefix

\* The characters the pattern \s matches, among those of Alphabet.
IsSpace(c) == c \in {" ", "\t"}

RECURSIVE NatOfDigits(_)
NatOfDigits(s) ==
    IF s = <<>> THEN 0
    ELSE NatOfDigits(SubSeq(s, 1, Len(s) - 1)) * 10 + DigitVal(s[Len(s)])

IsSign(c) == c \in {"-", "+"}

Unsigned(s) == IF s # <<>> /\ IsSign(s[1]) THEN Tail(s) ELSE s

Signed(s, n) == IF s # <<>> /\ s[1] = "-" THEN -n ELSE n

\* int(s) for s a numeral: an optional sign and digits.
IntOfStr(s) == Signed(s, NatOfDigits(Unsigned(s)))

\* The digits of s before its first ".", or all of s.
IntegerPart(s) ==
    IF \E i \in 1..Len(s) : s[i] = "."
    THEN SubSeq(s, 1, (CHOOSE i \in 1..Len(s) :
                          s[i] = "." /\ \A j \in 1..(i - 1) : s[j] # ".") - 1)
    ELSE s

\* int(float(s)) for s a decimal numeral: an optional sign, digits and an
\* optional fraction; int() truncates toward zero.
IntOfFloatStr(s) == Signed(s, NatOfDigits(IntegerPart(Unsigned(s))))

RECURSIVE StrOfNat(_)
StrOfNat(n) ==
    IF n < 10 THEN <<Digits[n + 1]>>
    ELSE StrOfNat(n \div 10) \o <<Digits[(n % 10) + 1]>>

\* str(n)
StrOfInt(n) == IF n < 0 THEN <<"-">> \o StrOfNat(-n) ELSE StrOfNat(n)

\* str(x) for x the result of dict.get on a points table: None or an int.
StrOfOpt(x) == IF x = None THEN <<"N","o","n","e">> ELSE StrOfInt(x[1])

-----------------------------------------------------------------------------
(* dict *)

DictKeys(d) == [i \in 1..Len(d) |-> d[i][1]]

DictValues(d) == [i \in 1..Len(d) |-> d[i][2]]

DictHas(d, k) == \E i \in 1..Len(d) : d[i][1] = k

\* d[k], for k a key of d
DictAt(d, k) == d[CHOOSE i \in 1..Len(d) : d[i][1] = k][2]

\* d.get(k)
DictGet(d, k) == IF DictHas(d, k) THEN Some(DictAt(d, k)) ELSE None

\* A variant that writes under an existing key only.
DictSetExisting(d, k, v) ==
    [i \in 1..Len(d) |-> IF d[i][1] = k THEN <<k, v>> ELSE d[i]]

\* d[k] = v: an existing key keeps its position, a new key goes last.
DictSet(d, k, v) ==
    IF DictHas(d, k)
    THEN [i \in 1..Len(d) |-> IF d[i][1] = k THEN <<k, v>> ELSE d[i]]
    ELSE Append(d, <<k, v>>)

-----------------------------------------------------------------------------
(* xml.etree.ElementTree *)

El(tag, attrib, children) == [tag |-> tag, attrib |-> attrib, children |-> children]

HasAttr(e, a) == a \in DOMAIN e.attrib

\* e.get(a, default)
Get(e, a, default) == IF HasAttr(e, a) THEN e.attrib[a] ELSE default

\* e.get(a) == v, for v a text
AttrIs(e, a, v) == HasAttr(e, a) /\ e.attrib[a] = v

RECURSIVE Flatten(_)
Flatten(seqs) == IF seqs = <<>> THEN <<>> ELSE Head(seqs) \o Flatten(Tail(seqs))

\* The descendants of e in document order.
RECURSIVE Descendants(_)
Descendants(e) ==
    Flatten([i \in 1..Len(e.children) |->
                <<e.children[i]>> \o Descendants(e.children[i])])

IsTag(tag, e) == e.tag = tag

\* e.findall('.//tag')
FindAll(e, tag) == SelectSeq(Descendants(e), LAMBDA x : IsTag(tag, x))

\* e.findall('t1/t2')
FindPath(e, t1, t2) ==
    Flatten([i \in 1..Len(e.children) |->
                IF IsTag(t1, e.children[i])
                THEN SelectSeq(e.children[i].children, LAMBDA x : IsTag(t2, x))
                ELSE <<>>])

\* e.iter(tag)
Iter(e, tag) == SelectSeq(<<e>> \o Descendants(e), LAMBDA x : IsTag(tag, x))

-----------------------------------------------------------------------------
(* Constants of the importer *)

POINTS_TYPE_ID == <<"5","1","b","2","-","3","0","6","e","-","1","0","2","1","-","d","2","0","7">>

-----------------------------------------------------------------------------
(* extract_keywords *)

\* re.sub(r'^Faction:\s*', '', name)
RECURSIVE LStripSpace(_)
LStripSpace(s) ==
    IF s # <<>> /\ IsSpace(s[1]) THEN LStripSpace(Tail(s)) ELSE s

StripFactionPrefix(name) ==
    IF StartsWith(name, <<"F","a","c","t","i","o","n",":">>)
    THEN LStripSpace(SubSeq(name, Len(<<"F","a","c","t","i","o","n",":">>) + 1, Len(name)))
    ELSE name

\* A variant that drops every name that starts with an excluded literal.
KeywordExcludedByPrefix(name) ==
    StartsWith(name, <<"C","o","n","f","i","g","u","r","a","t","i","o","n">>) \/ StartsWith(name, <<"F","a","c","t","i","o","n",":">>)

KeywordExcluded(name) == name \in {<<"C","o","n","f","i","g","u","r","a","t","i","o","n">>, <<"F","a","c","t","i","o","n",":">>}

RECURSIVE KeywordLoop(_, _)
KeywordLoop(links, kws) ==
    IF links = <<>> THEN kws
    ELSE LET name == Get(Head(links), "name", <<>>)
         IN  KeywordLoop(Tail(links),
                         IF name # <<>> /\ ~KeywordExcluded(name)
                         THEN Append(kws, StripFactionPrefix(name))
                         ELSE kws)

extract_keywords(e) == KeywordLoop(FindAll(e, "categoryLink"), <<>>)

-----------------------------------------------------------------------------
(* extract_points_scaling *)

IsPointsCost(cost) == AttrIs(cost, "typeId", POINTS_TYPE_ID) \/ AttrIs(cost, "name", <<"p","t","s">>)

IsMinSelections(c) == AttrIs(c, "type", <<"m","i","n">>) /\ AttrIs(c, "field", <<"s","e","l","e","c","t","i","o","n","s">>)

\* A variant that takes the last min/selections constraint.
MinCountLast(e) ==
    LET cs == SelectSeq(FindAll(e, "constraint"),
                        LAMBDA c : AttrIs(c, "type", <<"m","i","n">>) /\ AttrIs(c, "field", <<"s","e","l","e","c","t","i","o","n","s">>))
    IN  IF cs = <<>> THEN 1 ELSE IntOfStr(Get(cs[Len(cs)], "value", <<"1">>))

\* The base model count: the first min/selections constraint, else 1.
MinCount(e) ==
    LET cs == SelectSeq(FindAll(e, "constraint"), IsMinSelections)
    IN  IF cs = <<>> THEN 1 ELSE IntOfStr(Get(cs[1], "value", <<"1">>))

RECURSIVE BaseCostLoop(_, _, _)
BaseCostLoop(e, costs, pts) ==
    IF costs = <<>> THEN pts
    ELSE LET cost == Head(costs)
             base_pts == IntOfFloatStr(Get(cost, "value", <<"0">>))
         IN  BaseCostLoop(e, Tail(costs),
                          IF IsPointsCost(cost) /\ base_pts > 0
                          THEN DictSet(pts, StrOfInt(MinCount(e)), base_pts)
                          ELSE pts)

IsSelectionsCond(cond) == Contains(<<"s","e","l","e","c","t","i","o","n","s">>, Get(cond, "field", <<>>))

\* The conditions of one modifier: every selections condition with a
\* non-empty value sets its key (the loop has no break).
RECURSIVE ConditionLoop(_, _, _)
ConditionLoop(conds, mod_pts, pts) ==
    IF conds = <<>> THEN pts
    ELSE LET cond == Head(conds)
             count == Get(cond, "value", <<>>)
         IN  ConditionLoop(Tail(conds), mod_pts,
                           IF IsSelectionsCond(cond) /\ count # <<>> /\ mod_pts > 0
                           THEN DictSet(pts, count, mod_pts)
                           ELSE pts)

IsSetPoints(m) == AttrIs(m, "type", <<"s","e","t">>) /\ AttrIs(m, "field", POINTS_TYPE_ID)

RECURSIVE ModifierLoop(_, _)
ModifierLoop(mods, pts) ==
    IF mods = <<>> THEN pts
    ELSE LET m == Head(mods)
         IN  ModifierLoop(Tail(mods),
                          IF IsSetPoints(m)
                          THEN ConditionLoop(FindAll(m, "condition"),
                                             IntOfFloatStr(Get(m, "value", <<"0">>)), pts)
                          ELSE pts)

extract_points_scaling(e) ==
    ModifierLoop(FindAll(e, "modifier"),
                 BaseCostLoop(e, FindPath(e, "costs", "cost"), <<>>))

-----------------------------------------------------------------------------
(* parse_unit, parse_enhancement, parse_detachment *)

\* A Unit as asdict gives it, or None.
parse_unit(e) ==
    LET name == Get(e, "name", <<>>)
        pts == extract_points_scaling(e)
    IN  IF name = <<>> THEN None
        ELSE IF pts = <<>> THEN None
        ELSE Some([id |-> Get(e, "id", <<>>), name |-> name, points |-> pts,
                   keywords |-> extract_keywords(e)])

\* The truncated value of the first descendant points cost, 0 without one.
EnhancementPts(e) ==
    LET costs == SelectSeq(FindAll(e, "cost"), IsPointsCost)
    IN  IF costs = <<>> THEN 0 ELSE IntOfFloatStr(Get(costs[1], "value", <<"0">>))

\* The test that drops an upgrade entry for its cost.
NoEnhancementCost(pts) == pts = 0

parse_enhancement(e) ==
    LET name == Get(e, "name", <<>>)
        pts == EnhancementPts(e)
    IN  IF name = <<>> THEN None
        ELSE IF NoEnhancementCost(pts) THEN None
        ELSE Some([id |-> Get(e, "id", <<>>), name |-> name, points |-> pts])

IsUpgradeEntry(e) == IsTag("selectionEntry", e) /\ AttrIs(e, "type", <<"u","p","g","r","a","d","e">>)

\* e.findall('.//selectionEntry[@type="upgrade"]')
FindUpgradeEntries(e) == SelectSeq(Descendants(e), IsUpgradeEntry)

RECURSIVE EnhancementLoop(_, _)
EnhancementLoop(children, enhancements) ==
    IF children = <<>> THEN enhancements
    ELSE LET enh == parse_enhancement(Head(children))
         IN  EnhancementLoop(Tail(children),
                             IF enh # None THEN Append(enhancements, enh[1])
                             ELSE enhancements)

\* The name of the first descendant rule, "" without one.
RuleName(e) ==
    LET rules == FindAll(e, "rule")
    IN  IF rules = <<>> THEN <<>> ELSE Get(rules[1], "name", <<>>)

parse_detachment(e) ==
    LET name == Get(e, "name", <<>>)
    IN  IF name = <<>> THEN None
        ELSE Some([id |-> Get(e, "id", <<>>), name |-> name, rule_name |-> RuleName(e),
                   enhancements |-> EnhancementLoop(FindUpgradeEntries(e), <<>>)])

-----------------------------------------------------------------------------
(* parse_bsdata_catalog *)

\* The entries a detachment container hands to parse_detachment.
DetachmentEntries(e) == FindUpgradeEntries(e)

RECURSIVE DetachmentLoop(_, _)
DetachmentLoop(entries, detachments) ==
    IF entries = <<>> THEN detachments
    ELSE LET det == parse_detachment(Head(entries))
         IN  DetachmentLoop(Tail(entries),
                            IF det # None /\ det[1].rule_name # <<>>
                            THEN Append(detachments, det[1])
                            ELSE detachments)

\* A model entry is a unit when its first direct cost named "pts" is positive.
ModelHasPoints(e) ==
    LET costs == SelectSeq(FindPath(e, "costs", "cost"),
                           LAMBDA c : AttrIs(c, "name", <<"p","t","s">>))
    IN  costs # <<>> /\ IntOfFloatStr(Get(costs[1], "value", <<"0">>)) > 0

\* One iteration of the walk over the selection entries; acc holds the
\* collections and processed_ids.
WalkEntry(acc, e) ==
    LET entry_id == Get(e, "id", <<>>)
        entry_type == Get(e, "type", <<>>)
        name == Get(e, "name", <<>>)
        unit == parse_unit(e)
        enh == parse_enhancement(e)
    IN  IF entry_id \in acc.processed_ids THEN acc
        ELSE IF entry_type = <<"u","n","i","t">> THEN
            IF unit # None
            THEN [acc EXCEPT !.units = Append(@, unit[1]),
                             !.processed_ids = @ \cup {entry_id}]
            ELSE acc
        ELSE IF entry_type = <<"m","o","d","e","l">> THEN
            IF ModelHasPoints(e) /\ unit # None
            THEN [acc EXCEPT !.units = Append(@, unit[1]),
                             !.processed_ids = @ \cup {entry_id}]
            ELSE acc
        ELSE IF entry_type = <<"u","p","g","r","a","d","e">> THEN
            IF name = <<"D","e","t","a","c","h","m","e","n","t","s">>
            THEN [acc EXCEPT !.detachments = DetachmentLoop(DetachmentEntries(e), @)]
            ELSE IF enh # None
            THEN [acc EXCEPT !.enhancements = Append(@, enh[1]),
                             !.processed_ids = @ \cup {entry_id}]
            ELSE acc
        ELSE acc

RECURSIVE WalkLoop(_, _)
WalkLoop(entries, acc) ==
    IF entries = <<>> THEN acc
    ELSE WalkLoop(Tail(entries), WalkEntry(acc, Head(entries)))

\* What the walk collects, before sorting and deduplication.
Collect(doc) ==
    WalkLoop(Iter(doc, "selectionEntry"),
             [units |-> <<>>, enhancements |-> <<>>, detachments |-> <<>>,
              processed_ids |-> {}])

\* A variant that is not stable: x goes before the records of its name.
RECURSIVE InsertByNameUnstable(_, _)
InsertByNameUnstable(s, x) ==
    IF s = <<>> THEN <<x>>
    ELSE IF ~StrLess(Head(s).name, x.name) THEN <<x>> \o s
    ELSE <<Head(s)>> \o InsertByNameUnstable(Tail(s), x)

\* The place list.sort gives x among the sorted records s: after every
\* record whose name is not greater (the sort is stable).
RECURSIVE InsertByName(_, _)
InsertByName(s, x) ==
    IF s = <<>> THEN <<x>>
    ELSE IF StrLess(x.name, Head(s).name) THEN <<x>> \o s
    ELSE <<Head(s)>> \o InsertByName(Tail(s), x)

RECURSIVE SortLoop(_, _)
SortLoop(s, sorted) ==
    IF s = <<>> THEN sorted ELSE SortLoop(Tail(s), InsertByName(sorted, Head(s)))

\* list.sort(key=lambda x: x["name"])
SortByName(s) == SortLoop(s, <<>>)

\* [u for u in s if u["name"] not in seen and not seen.add(u["name"])]
RECURSIVE DedupLoop(_, _, _)
DedupLoop(s, seen, kept) ==
    IF s = <<>> THEN kept
    ELSE IF Head(s).name \in seen THEN DedupLoop(Tail(s), seen, kept)
    ELSE DedupLoop(Tail(s), seen \cup {Head(s).name}, Append(kept, Head(s)))

DedupByName(s) == DedupLoop(s, {}, <<>>)

parse_bsdata_catalog(doc) ==
    LET c == Collect(doc)
    IN  [units |-> DedupByName(SortByName(c.units)),
         enhancements |-> DedupByName(SortByName(c.enhancements)),
         detachments |-> SortByName(c.detachments)]

-----------------------------------------------------------------------------
(* compare_data *)

\* {u["name"]: u for u in units}
RECURSIVE UnitLookupLoop(_, _)
UnitLookupLoop(units, d) ==
    IF units = <<>> THEN d
    ELSE UnitLookupLoop(Tail(units), DictSet(d, Head(units).name, Head(units)))

UnitLookup(units) == UnitLookupLoop(units, <<>>)

\* {e["name"]: e["points"] for e in enhancements}
RECURSIVE EnhPointsLoop(_, _)
EnhPointsLoop(enhancements, d) ==
    IF enhancements = <<>> THEN d
    ELSE EnhPointsLoop(Tail(enhancements),
                       DictSet(d, Head(enhancements).name, Head(enhancements).points))

\* The stored enhancements of every detachment, by name.
RECURSIVE WarboardEnhLoop(_, _)
WarboardEnhLoop(dets, d) ==
    IF dets = <<>> THEN d
    ELSE WarboardEnhLoop(Tail(dets), EnhPointsLoop(Head(dets).enhancements, d))

WarboardEnh(wb) == WarboardEnhLoop(DictValues(wb.detachments), <<>>)

\* A variant without key=int: the least key as text.
MinKeyAsText(keys) ==
    keys[CHOOSE i \in 1..Len(keys) :
            \A j \in 1..Len(keys) : keys[i] = keys[j] \/ StrLess(keys[i], keys[j])]

\* min(keys, key=int): the first of the keys of least integer value.
MinKey(keys) ==
    keys[CHOOSE i \in 1..Len(keys) :
            /\ \A j \in 1..Len(keys) : IntOfStr(keys[i]) <= IntOfStr(keys[j])
            /\ \A j \in 1..(i - 1) : IntOfStr(keys[j]) # IntOfStr(keys[i])]

\* min(values)
MinValue(values) ==
    values[CHOOSE i \in 1..Len(values) : \A j \in 1..Len(values) : values[i] <= values[j]]

\* A variant that takes the lowest fresh value whatever the key.
FreshBaseLowest(bs_points, wb_min) == MinValue(DictValues(bs_points))

\* bs_points.get(wb_min) or min(bs_points.values())
FreshBase(bs_points, wb_min) ==
    LET got == DictGet(bs_points, wb_min)
    IN  IF got # None /\ got[1] # 0 THEN got[1] ELSE MinValue(DictValues(bs_points))

\* One stored unit of the comparison of units.
CompareUnit(c, name, wb_unit, bsdata_units) ==
    IF DictHas(bsdata_units, name)
    THEN LET bs_unit == DictAt(bsdata_units, name)
             wb_min == MinKey(DictKeys(wb_unit.points))
             wb_base == DictAt(wb_unit.points, wb_min)
             bs_base == FreshBase(bs_unit.points, wb_min)
         IN  IF wb_base # bs_base
             THEN [c EXCEPT !.unit_differences =
                       Append(@, [name |-> name, warboard |-> wb_base, bsdata |-> bs_base])]
             ELSE [c EXCEPT !.matching_units = @ + 1]
    ELSE [c EXCEPT !.missing_in_bsdata = Append(@, [name |-> name, type |-> "unit"])]

RECURSIVE CompareUnitsLoop(_, _, _)
CompareUnitsLoop(items, bsdata_units, c) ==
    IF items = <<>> THEN c
    ELSE CompareUnitsLoop(Tail(items), bsdata_units,
                          CompareUnit(c, Head(items)[1], Head(items)[2], bsdata_units))

\* A variant that reports a fresh unit under the name alone.
RECURSIVE MissingUnitsLoopNoPoints(_, _, _)
MissingUnitsLoopNoPoints(items, warboard_units, c) ==
    IF items = <<>> THEN c
    ELSE MissingUnitsLoopNoPoints(Tail(items), warboard_units,
             IF ~DictHas(warboard_units, Head(items)[1])
             THEN [c EXCEPT !.missing_in_warboard =
                       Append(@, [name |-> Head(items)[1], type |-> "unit",
                                  points |-> <<>>])]
             ELSE c)

RECURSIVE MissingUnitsLoop(_, _, _)
MissingUnitsLoop(items, warboard_units, c) ==
    IF items = <<>> THEN c
    ELSE MissingUnitsLoop(Tail(items), warboard_units,
             IF ~DictHas(warboard_units, Head(items)[1])
             THEN [c EXCEPT !.missing_in_warboard =
                       Append(@, [name |-> Head(items)[1], type |-> "unit",
                                  points |-> Head(items)[2].points])]
             ELSE c)

RECURSIVE CompareEnhLoop(_, _, _)
CompareEnhLoop(items, bsdata_enh, c) ==
    IF items = <<>> THEN c
    ELSE LET name == Head(items)[1]
             wb_pts == Head(items)[2]
         IN  CompareEnhLoop(Tail(items), bsdata_enh,
                 IF DictHas(bsdata_enh, name)
                 THEN IF wb_pts # DictAt(bsdata_enh, name)
                      THEN [c EXCEPT !.enhancement_differences =
                                Append(@, [name |-> name, warboard |-> wb_pts,
                                           bsdata |-> DictAt(bsdata_enh, name)])]
                      ELSE [c EXCEPT !.matching_enhancements = @ + 1]
                 ELSE c)

RECURSIVE MissingEnhLoop(_, _, _)
MissingEnhLoop(items, warboard_enh, c) ==
    IF items = <<>> THEN c
    ELSE MissingEnhLoop(Tail(items), warboard_enh,
             IF ~DictHas(warboard_enh, Head(items)[1])
             THEN [c EXCEPT !.missing_in_warboard =
                       Append(@, [name |-> Head(items)[1], type |-> "enhancement",
                                  points |-> Head(items)[2]])]
             ELSE c)

NewComparison ==
    [unit_differences |-> <<>>, enhancement_differences |-> <<>>,
     missing_in_warboard |-> <<>>, missing_in_bsdata |-> <<>>,
     matching_units |-> 0, matching_enhancements |-> 0]

compare_data(bs, wb) ==
    LET bsdata_units == UnitLookup(bs.units)
        warboard_units == UnitLookup(wb.units)
        bsdata_enh == EnhPointsLoop(bs.enhancements, <<>>)
        warboard_enh == WarboardEnh(wb)
    IN  MissingEnhLoop(bsdata_enh, warboard_enh,
            CompareEnhLoop(warboard_enh, bsdata_enh,
                MissingUnitsLoop(bsdata_units, warboard_units,
                    CompareUnitsLoop(warboard_units, bsdata_units, NewComparison))))

\* min() of an empty sequence raises ValueError: a stored unit that is in
\* the fresh dataset and has no points.
CompareRaises(bs, wb) ==
    \E i \in 1..Len(UnitLookup(wb.units)) :
        /\ DictHas(UnitLookup(bs.units), UnitLookup(wb.units)[i][1])
        /\ UnitLookup(wb.units)[i][2].points = <<>>

-----------------------------------------------------------------------------
(* sync_points *)

\* f"Unit '{name}' ({count} models): {old} -> {pts}"
UnitChangeLine(name, count, old, pts) ==
    <<"U","n","i","t"," ","'">> \o name \o <<"'"," ","(">> \o count \o <<" ","m","o","d","e","l","s",")",":"," ">>
    \o StrOfOpt(old) \o <<" ","-",">"," ">> \o StrOfInt(pts)

\* f"Enhancement '{name}': {old} -> {pts}"
EnhChangeLine(name, old, pts) ==
    <<"E","n","h","a","n","c","e","m","e","n","t"," ","'">> \o name \o <<"'",":"," ">> \o StrOfInt(old) \o <<" ","-",">"," ">> \o StrOfInt(pts)

\* A variant that logs every fresh item, changed or not.
RECURSIVE SyncCountsLoopLogAll(_, _, _)
SyncCountsLoopLogAll(items, name, acc) ==
    IF items = <<>> THEN acc
    ELSE LET count == Head(items)[1]
             pts == Head(items)[2]
             old == DictGet(acc.points, count)
         IN  SyncCountsLoopLogAll(Tail(items), name,
                 [points |-> DictSet(acc.points, count, pts),
                  changes |-> Append(acc.changes, UnitChangeLine(name, count, old, pts))])

\* The fresh points of one unit, item by item; acc holds the unit's points
\* and the change log.
RECURSIVE SyncCountsLoop(_, _, _)
SyncCountsLoop(items, name, acc) ==
    IF items = <<>> THEN acc
    ELSE LET count == Head(items)[1]
             pts == Head(items)[2]
             old == DictGet(acc.points, count)
         IN  SyncCountsLoop(Tail(items), name,
                 IF old # Some(pts)
                 THEN [points |-> DictSet(acc.points, count, pts),
                       changes |-> Append(acc.changes, UnitChangeLine(name, count, old, pts))]
                 ELSE acc)

\* acc holds the units done and the change log.
RECURSIVE SyncUnitsLoop(_, _, _)
SyncUnitsLoop(units, bsdata_units, acc) ==
    IF units = <<>> THEN acc
    ELSE LET unit == Head(units)
             synced == SyncCountsLoop(DictAt(bsdata_units, unit.name).points, unit.name,
                                      [points |-> unit.points, changes |-> acc.changes])
         IN  SyncUnitsLoop(Tail(units), bsdata_units,
                 IF DictHas(bsdata_units, unit.name)
                 THEN [units |-> Append(acc.units, [unit EXCEPT !.points = synced.points]),
                       changes |-> synced.changes]
                 ELSE [acc EXCEPT !.units = Append(@, unit)])

\* {e["name"]: e for e in enhancements}
EnhLookup(enhancements) == UnitLookup(enhancements)

\* A variant that puts the fresh record in the place of the stored one.
RECURSIVE SyncEnhLoopReplace(_, _, _)
SyncEnhLoopReplace(enhs, bsdata_enh, acc) ==
    IF enhs = <<>> THEN acc
    ELSE LET enh == Head(enhs)
             bs_enh == DictAt(bsdata_enh, enh.name)
         IN  SyncEnhLoopReplace(Tail(enhs), bsdata_enh,
                 IF DictHas(bsdata_enh, enh.name) /\ enh.points # bs_enh.points
                 THEN [enhancements |-> Append(acc.enhancements, bs_enh),
                       changes |->
                           Append(acc.changes,
                                  EnhChangeLine(enh.name, enh.points, bs_enh.points))]
                 ELSE [acc EXCEPT !.enhancements = Append(@, enh)])

\* The enhancements of one stored detachment.
RECURSIVE SyncEnhLoop(_, _, _)
SyncEnhLoop(enhs, bsdata_enh, acc) ==
    IF enhs = <<>> THEN acc
    ELSE LET enh == Head(enhs)
             bs_enh == DictAt(bsdata_enh, enh.name)
         IN  SyncEnhLoop(Tail(enhs), bsdata_enh,
                 IF DictHas(bsdata_enh, enh.name) /\ enh.points # bs_enh.points
                 THEN [enhancements |->
                           Append(acc.enhancements, [enh EXCEPT !.points = bs_enh.points]),
                       changes |->
                           Append(acc.changes,
                                  EnhChangeLine(enh.name, enh.points, bs_enh.points))]
                 ELSE [acc EXCEPT !.enhancements = Append(@, enh)])

\* acc holds the detachments done, as a dict, and the change log.
RECURSIVE SyncDetachmentsLoop(_, _, _)
SyncDetachmentsLoop(items, bsdata_enh, acc) ==
    IF items = <<>> THEN acc
    ELSE LET det == Head(items)[2]
             synced == SyncEnhLoop(det.enhancements, bsdata_enh,
                                   [enhancements |-> <<>>, changes |-> acc.changes])
         IN  SyncDetachmentsLoop(Tail(items), bsdata_enh,
                 [detachments |->
                      Append(acc.detachments,
                             <<Head(items)[1], [det EXCEPT !.enhancements = synced.enhancements]>>),
                  changes |-> synced.changes])

\* The pair sync_points returns: the patched dataset and the change log.
sync_points(bs, wb) ==
    LET units == SyncUnitsLoop(wb.units, UnitLookup(bs.units),
                               [units |-> <<>>, changes |-> <<>>])
        dets == SyncDetachmentsLoop(wb.detachments, EnhLookup(bs.enhancements),
                                    [detachments |-> <<>>, changes |-> units.changes])
    IN  [warboard |-> [units |-> units.units, detachments |-> dets.detachments],
         changes |-> dets.changes]

-----------------------------------------------------------------------------
(* Catalog documents: the elements the inputs are built from *)

NoAttrs == [a \in {} |-> <<>>]

Container(tag, children) == El(tag, NoAttrs, children)

\* A container element, present only when it has children.
Wrap(tag, children) == IF children = <<>> THEN <<>> ELSE <<Container(tag, children)>>

Cost(name, typeId, value) ==
    El("cost", [name |-> name, typeId |-> typeId, value |-> value], <<>>)

PtsCost(value) == Cost(<<"p","t","s">>, POINTS_TYPE_ID, value)

Constraint(type, field, value) ==
    El("constraint", [type |-> type, field |-> field, value |-> value], <<>>)

MinSel(value) == Constraint(<<"m","i","n">>, <<"s","e","l","e","c","t","i","o","n","s">>, value)

Condition(field, value) == El("condition", [field |-> field, value |-> value], <<>>)

Sel(value) == Condition(<<"s","e","l","e","c","t","i","o","n","s">>, value)

Modifier(type, field, value, conds) ==
    El("modifier", [type |-> type, field |-> field, value |-> value],
       Wrap("conditions", conds))

SetPts(value, conds) == Modifier(<<"s","e","t">>, POINTS_TYPE_ID, value, conds)

\* A modifier whose conditions sit inside a condition group.
SetPtsGrouped(value, conds) ==
    El("modifier", [type |-> <<"s","e","t">>, field |-> POINTS_TYPE_ID, value |-> value],
       <<Container("conditionGroups",
                   <<El("conditionGroup", [type |-> <<"a","n","d">>], Wrap("conditions", conds))>>)>>)

CategoryLink(name) == El("categoryLink", [name |-> name], <<>>)

SelectionEntry(id, name, type, children) ==
    El("selectionEntry", [id |-> id, name |-> name, type |-> type], children)

\* The sequences over S of length at most n.
SeqsUpTo(S, n) == UNION {[1..k -> S] : k \in 0..n}

\* The sequences over S of length 1 to n.
SeqsFrom1(S, n) == UNION {[1..k -> S] : k \in 1..n}

-----------------------------------------------------------------------------
(* Inputs of the entry extractors *)

MaxCosts == 2
MaxConstraints == 2
MaxConds == 2
MaxModifiers == 2
MaxLinks == 3

CostPool ==
    { PtsCost(<<"1","0","0">>),
      Cost(<<"P","o","i","n","t","s">>, POINTS_TYPE_ID, <<"8","5",".","5">>),
      El("cost", [name |-> <<"p","t","s">>], <<>>),
      Cost(<<"P","L">>, <<"e","3","5","6","-","c","7","6","9","-","5","9","2","0","-","6","e","1","4">>, <<"7">>) }

ConstraintPool ==
    { MinSel(<<"5">>), MinSel(<<"0">>),
      Constraint(<<"m","a","x">>, <<"s","e","l","e","c","t","i","o","n","s">>, <<"1","0">>),
      El("constraint", [type |-> <<"m","i","n">>, field |-> <<"s","e","l","e","c","t","i","o","n","s">>], <<>>) }

\* A nested model entry, with a minimum of its own or without.
NestedPool ==
    { <<>>,
      <<SelectionEntry(<<"m","1">>, <<"C","u","s","t","o","d","i","a","n">>, <<"m","o","d","e","l">>,
                       Wrap("constraints", <<MinSel(<<"0","3">>)>>))>> }

CondPool == { Sel(<<"1","0">>), Sel(<<"5">>), Condition(<<"f","o","r","c","e","s">>, <<"2","0">>) }

CondLists ==
    SeqsUpTo(CondPool, MaxConds)
    \cup { <<Sel(<<>>)>>,
           <<El("condition", [field |-> <<"s","e","l","e","c","t","i","o","n","s">>], <<>>)>>,
           <<Condition(<<"u","n","i","t","-","s","e","l","e","c","t","i","o","n","s","-","t","o","t","a","l">>, <<"x">>)>> }

FirstModifierPool ==
    { SetPts(v, cl) : v \in {<<"1","9","0">>, <<"2","5","0",".","9">>}, cl \in CondLists }
    \cup { SetPts(<<"0">>, <<Sel(<<"1","0">>)>>),
           SetPts(<<"-","5">>, <<Sel(<<"1","0">>)>>),
           Modifier(<<"i","n","c","r","e","m","e","n","t">>, POINTS_TYPE_ID, <<"1","9","0">>, <<Sel(<<"1","0">>)>>),
           Modifier(<<"s","e","t">>, <<"h","i","d","d","e","n">>, <<"1","9","0">>, <<Sel(<<"1","0">>)>>),
           El("modifier", [type |-> <<"s","e","t">>, field |-> POINTS_TYPE_ID],
              Wrap("conditions", <<Sel(<<"1","0">>)>>)),
           SetPtsGrouped(<<"1","9","0">>, <<Sel(<<"1","0">>), Sel(<<"2","0">>)>>) }

LaterModifierPool ==
    { SetPts(<<"1","2","0">>, <<Sel(<<"1","0">>)>>), SetPts(<<"1","2","0">>, <<Sel(<<"5">>)>>),
      SetPts(<<"0">>, <<Sel(<<"1","0">>)>>) }

ModifierLists ==
    { <<>> }
    \cup { <<m>> : m \in FirstModifierPool }
    \cup { <<m>> \o t : m \in FirstModifierPool,
                        t \in SeqsFrom1(LaterModifierPool, MaxModifiers - 1) }

\* The children of an entry, in the order of a catalog file; nestedFirst puts
\* the nested entries before the entry's own constraints.
EntryChildren(costs, constraints, mods, nested, nestedFirst) ==
    IF nestedFirst
    THEN Wrap("selectionEntries", nested) \o Wrap("constraints", constraints)
         \o Wrap("costs", costs) \o Wrap("modifiers", mods)
    ELSE Wrap("constraints", constraints) \o Wrap("selectionEntries", nested)
         \o Wrap("costs", costs) \o Wrap("modifiers", mods)

UnitEntry(children) == SelectionEntry(<<"u","1">>, <<"C","u","s","t","o","d","i","a","n"," ","G","u","a","r","d">>, <<"u","n","i","t">>, children)

\* Entries that vary the costs, around the constraints of a unit.
CostEntries ==
    { UnitEntry(EntryChildren(costs, constraints, mods, nested, nestedFirst)) :
        costs \in SeqsUpTo(CostPool, MaxCosts),
        constraints \in { <<>>, <<MinSel(<<"5">>)>> },
        mods \in { <<>>, <<SetPts(<<"1","9","0">>, <<Sel(<<"5">>)>>)>> },
        nested \in NestedPool,
        nestedFirst \in BOOLEAN }

\* Entries that vary the constraints, around the costs of a unit.
ConstraintEntries ==
    { UnitEntry(EntryChildren(costs, constraints, mods, nested, nestedFirst)) :
        costs \in { <<>>, <<PtsCost(<<"1","0","0">>)>>, <<PtsCost(<<"1","0","0">>), PtsCost(<<"8","5",".","5">>)>> },
        constraints \in SeqsUpTo(ConstraintPool, MaxConstraints),
        mods \in { <<>>, <<SetPts(<<"1","9","0">>, <<Sel(<<"5">>)>>)>> },
        nested \in NestedPool,
        nestedFirst \in BOOLEAN }

BaseCostEntries == CostEntries \cup ConstraintEntries

\* Entries that vary the modifiers and their conditions.
ModifierEntries ==
    { UnitEntry(EntryChildren(costs, constraints, mods, <<>>, FALSE)) :
        costs \in { <<>>, <<PtsCost(<<"1","0","0">>)>> },
        constraints \in { <<>>, <<MinSel(<<"5">>)>>, <<MinSel(<<"1","0">>)>> },
        mods \in ModifierLists }

LinkNames ==
    { <<>>, <<"C","o","n","f","i","g","u","r","a","t","i","o","n">>, <<"F","a","c","t","i","o","n",":">>, <<"F","a","c","t","i","o","n",":"," ","A","d","e","p","t","u","s"," ","C","u","s","t","o","d","e","s">>, <<"I","n","f","a","n","t","r","y">>,
      <<"F","a","c","t","i","o","n",":","I","m","p","e","r","i","u","m">>, <<"F","a","c","t","i","o","n",":"," ">>, <<" ","F","a","c","t","i","o","n",":"," ","C","h","a","o","s">>, <<"C","o","n","f","i","g","u","r","a","t","i","o","n"," ">> }

LinkPool ==
    { CategoryLink(n) : n \in LinkNames } \cup { El("categoryLink", [id |-> <<"c","1">>], <<>>) }

\* Entries that vary the category links; the last link of a nested entry is
\* a link of the nested model.
KeywordEntries ==
    { UnitEntry(IF nested /\ links # <<>>
                THEN Wrap("categoryLinks", SubSeq(links, 1, Len(links) - 1))
                     \o Wrap("selectionEntries",
                             <<SelectionEntry(<<"m","1">>, <<"C","u","s","t","o","d","i","a","n">>, <<"m","o","d","e","l">>,
                                   Wrap("categoryLinks", <<links[Len(links)]>>))>>)
                ELSE Wrap("categoryLinks", links)) :
        links \in SeqsUpTo(LinkPool, MaxLinks), nested \in BOOLEAN }

EntryInputs == BaseCostEntries \cup ModifierEntries \cup KeywordEntries

-----------------------------------------------------------------------------
(* Inputs of the catalog walker *)

MaxEntries == 3

Rule(name) == El("rule", [name |-> name], <<>>)

\* {"5": 100, "10": 190}, keywords Adeptus Custodes and Infantry
GuardUnit ==
    SelectionEntry(<<"u","1">>, <<"C","u","s","t","o","d","i","a","n"," ","G","u","a","r","d">>, <<"u","n","i","t">>,
        Wrap("constraints", <<MinSel(<<"5">>)>>)
        \o Wrap("categoryLinks", <<CategoryLink(<<"C","o","n","f","i","g","u","r","a","t","i","o","n">>),
                                   CategoryLink(<<"F","a","c","t","i","o","n",":"," ","A","d","e","p","t","u","s"," ","C","u","s","t","o","d","e","s">>),
                                   CategoryLink(<<"I","n","f","a","n","t","r","y">>)>>)
        \o Wrap("costs", <<PtsCost(<<"1","0","0">>)>>)
        \o Wrap("modifiers", <<SetPts(<<"1","9","0">>, <<Sel(<<"1","0">>)>>)>>))

\* The same name under another identifier.
GuardUnitAgain ==
    SelectionEntry(<<"u","2">>, <<"C","u","s","t","o","d","i","a","n"," ","G","u","a","r","d">>, <<"u","n","i","t">>,
        Wrap("costs", <<PtsCost(<<"1","1","0">>)>>))

\* A unit whose first minimum is the optional model's.
AllarusUnit ==
    SelectionEntry(<<"u","3">>, <<"A","l","l","a","r","u","s"," ","C","u","s","t","o","d","i","a","n","s">>, <<"u","n","i","t">>,
        Wrap("selectionEntries",
             <<SelectionEntry(<<"m","3">>, <<"V","e","x","i","l","l","a">>, <<"m","o","d","e","l">>,
                   Wrap("constraints", <<MinSel(<<"0">>)>>))>>)
        \o Wrap("constraints", <<MinSel(<<"2">>)>>)
        \o Wrap("costs", <<PtsCost(<<"1","3","0">>)>>))

\* A unit without points.
ZeroUnit ==
    SelectionEntry(<<"u","4">>, <<"C","u","s","t","o","d","i","a","n">>, <<"u","n","i","t">>, Wrap("costs", <<PtsCost(<<"0">>)>>))

\* A character: a model entry with points.
CharacterModel ==
    SelectionEntry(<<"m","1">>, <<"C","u","s","t","o","d","i","a","n">>, <<"m","o","d","e","l">>, Wrap("costs", <<PtsCost(<<"1","4","0">>)>>))

\* Wargear that shares the model type.
WargearModel ==
    SelectionEntry(<<"m","2">>, <<"C","u","s","t","o","d","i","a","n"," ","G","u","a","r","d">>, <<"m","o","d","e","l">>, Wrap("costs", <<PtsCost(<<"0">>)>>))

\* A unit with a model and an upgrade of its own inside.
WardensUnit ==
    SelectionEntry(<<"u","5">>, <<"A","l","l","a","r","u","s"," ","C","u","s","t","o","d","i","a","n","s">>, <<"u","n","i","t">>,
        Wrap("selectionEntries",
             <<SelectionEntry(<<"m","1">>, <<"C","u","s","t","o","d","i","a","n">>, <<"m","o","d","e","l">>,
                   Wrap("costs", <<PtsCost(<<"5","0">>)>>)),
               SelectionEntry(<<"e","1">>, <<"A","u","r","i","c"," ","M","a","n","t","l","e">>, <<"u","p","g","r","a","d","e">>,
                   Wrap("costs", <<PtsCost(<<"1","5">>)>>))>>)
        \o Wrap("costs", <<PtsCost(<<"6","5">>)>>))

MantleUpgrade ==
    SelectionEntry(<<"e","1">>, <<"A","u","r","i","c"," ","M","a","n","t","l","e">>, <<"u","p","g","r","a","d","e">>, Wrap("costs", <<PtsCost(<<"1","5">>)>>))

MantleUpgradeAgain ==
    SelectionEntry(<<"e","2">>, <<"A","u","r","i","c"," ","M","a","n","t","l","e">>, <<"u","p","g","r","a","d","e">>, Wrap("costs", <<PtsCost(<<"2","5",".","0">>)>>))

FreeUpgrade ==
    SelectionEntry(<<"e","3">>, <<"P","r","a","e","s","i","d","i","u","m"," ","S","h","i","e","l","d">>, <<"u","p","g","r","a","d","e">>, Wrap("costs", <<PtsCost(<<"0">>)>>))

DiscountUpgrade ==
    SelectionEntry(<<"e","4">>, <<"A","u","g","u","r","y">>, <<"u","p","g","r","a","d","e">>, Wrap("costs", <<PtsCost(<<"-","5">>)>>))

\* Two detachments of one name, each with a rule, and one without a rule.
DetachmentsContainer ==
    SelectionEntry(<<"d","0">>, <<"D","e","t","a","c","h","m","e","n","t","s">>, <<"u","p","g","r","a","d","e">>,
        Wrap("selectionEntries",
             <<SelectionEntry(<<"d","1">>, <<"S","h","i","e","l","d"," ","H","o","s","t">>, <<"u","p","g","r","a","d","e">>,
                   Wrap("rules", <<Rule(<<"M","a","r","t","i","a","l"," ","M","a","s","t","e","r","y">>)>>)
                   \o Wrap("selectionEntries",
                           <<SelectionEntry(<<"e","5">>, <<"P","a","n","o","p","t","i","s","p","e","x">>, <<"u","p","g","r","a","d","e">>,
                                 Wrap("costs", <<PtsCost(<<"2","5">>)>>)),
                             SelectionEntry(<<"e","6">>, <<"P","r","a","e","s","i","d","i","u","m"," ","S","h","i","e","l","d">>, <<"u","p","g","r","a","d","e">>,
                                 Wrap("costs", <<PtsCost(<<"0">>)>>))>>)),
               SelectionEntry(<<"d","2">>, <<"S","h","i","e","l","d"," ","H","o","s","t">>, <<"u","p","g","r","a","d","e">>,
                   Wrap("rules", <<Rule(<<"M","a","r","t","i","a","l"," ","M","a","s","t","e","r","y">>)>>)),
               SelectionEntry(<<"d","3">>, <<"A","u","r","i","c"," ","C","h","a","m","p","i","o","n","s">>, <<"u","p","g","r","a","d","e">>, <<>>)>>))

\* A detachment whose enhancement carries a rule and a negative cost.
SmallDetachmentsContainer ==
    SelectionEntry(<<"d","4">>, <<"D","e","t","a","c","h","m","e","n","t","s">>, <<"u","p","g","r","a","d","e">>,
        Wrap("selectionEntries",
             <<SelectionEntry(<<"d","5">>, <<"A","u","r","i","c"," ","C","h","a","m","p","i","o","n","s">>, <<"u","p","g","r","a","d","e">>,
                   Wrap("rules", <<Rule(<<"A","s","s","e","m","b","l","a","g","e"," ","o","f"," ","M","i","g","h","t">>)>>)
                   \o Wrap("selectionEntries",
                           <<SelectionEntry(<<"e","7">>, <<"B","l","a","d","e"," ","I","m","p","e","r","a","t","o","r">>, <<"u","p","g","r","a","d","e">>,
                                 Wrap("rules", <<Rule(<<"B","l","a","d","e"," ","I","m","p","e","r","a","t","o","r">>)>>)
                                 \o Wrap("costs", <<PtsCost(<<"-","5">>)>>))>>))>>))

EntryPool ==
    { GuardUnit, GuardUnitAgain, AllarusUnit, ZeroUnit, CharacterModel, WargearModel,
      WardensUnit, MantleUpgrade, MantleUpgradeAgain, FreeUpgrade, DiscountUpgrade,
      DetachmentsContainer, SmallDetachmentsContainer }

Catalogue(entries) == Container("catalogue", Wrap("sharedSelectionEntries", entries))

CatalogInputs == { Catalogue(entries) : entries \in SeqsUpTo(EntryPool, MaxEntries) }

-----------------------------------------------------------------------------
(* Inputs of the reconciler *)

MaxKeys == 2
MaxStoredEnhancements == 2

KeyPool == { <<"3">>, <<"1","0">>, <<"5">> }

PointValues == { 110, 120 }

\* The dicts of at most n keys of KeyPool, in every insertion order.
TablesUpTo(n) ==
    { t \in SeqsUpTo(KeyPool \X PointValues, n) :
        \A i, j \in 1..Len(t) : i # j => t[i][1] # t[j][1] }

\* A PointsTable as extract_points_scaling returns it for a unit: not empty.
FreshTables == TablesUpTo(MaxKeys) \ { <<>> }

StoredTables == TablesUpTo(MaxKeys)

FreshUnit(id, name, pts) == [id |-> id, name |-> name, points |-> pts, keywords |-> <<>>]

StoredUnit(id, name, pts) == [id |-> id, name |-> name, points |-> pts]

\* The units of a fresh dataset: sorted by name, no name twice.
FreshUnitLists ==
    { a \o g : a \in { <<>>, <<FreshUnit(<<"u","3">>, <<"A","l","l","a","r","u","s"," ","C","u","s","t","o","d","i","a","n","s">>, <<<<<<"1">>, 70>>>>)>> },
               g \in { <<>> } \cup { <<FreshUnit(<<"u","1">>, <<"C","u","s","t","o","d","i","a","n"," ","G","u","a","r","d">>, t)>> :
                                       t \in FreshTables } }

\* The units of the stored file, in either order.
StoredUnitLists ==
    LET allarus == { <<>>, <<StoredUnit(<<"a","l","l","a","r","u","s","-","c","u","s","t","o","d","i","a","n","s">>, <<"A","l","l","a","r","u","s"," ","C","u","s","t","o","d","i","a","n","s">>,
                                        <<<<<<"1">>, 70>>>>)>> }
        guard == { <<>> } \cup { <<StoredUnit(<<"c","u","s","t","o","d","i","a","n","-","g","u","a","r","d">>, <<"C","u","s","t","o","d","i","a","n"," ","G","u","a","r","d">>, t)>> :
                                   t \in StoredTables }
    IN  { a \o g : a \in allarus, g \in guard } \cup { g \o a : a \in allarus, g \in guard }

FreshEnhancement(id, name, pts) == [id |-> id, name |-> name, points |-> pts]

StoredEnhancement(id, name, pts) == [id |-> id, name |-> name, points |-> pts]

\* The enhancements of a fresh dataset: sorted by name, no name twice.
FreshEnhancementLists ==
    { m \o p : m \in { <<>> } \cup { <<FreshEnhancement(<<"e","1">>, <<"A","u","r","i","c"," ","M","a","n","t","l","e">>, v)>> :
                                       v \in { 15, 25 } },
               p \in { <<>>, <<FreshEnhancement(<<"e","5">>, <<"P","a","n","o","p","t","i","s","p","e","x">>, 25)>> } }

StoredEnhancementPool ==
    { StoredEnhancement(<<"a","u","r","i","c","-","m","a","n","t","l","e">>, <<"A","u","r","i","c"," ","M","a","n","t","l","e">>, 15),
      StoredEnhancement(<<"a","u","r","i","c","-","m","a","n","t","l","e">>, <<"A","u","r","i","c"," ","M","a","n","t","l","e">>, 25),
      StoredEnhancement(<<"v","e","i","l","e","d","-","b","l","a","d","e">>, <<"V","e","i","l","e","d"," ","B","l","a","d","e">>, 25) }

StoredDetachment(name, enhancements) == [name |-> name, enhancements |-> enhancements]

\* The detachments mapping of the stored file.
StoredDetachmentDicts ==
    { s \o a :
        s \in { <<>> } \cup { <<<<<<"s","h","i","e","l","d","_","h","o","s","t">>, StoredDetachment(<<"S","h","i","e","l","d"," ","H","o","s","t">>, enhs)>>>> :
                                enhs \in SeqsUpTo(StoredEnhancementPool, MaxStoredEnhancements) },
        a \in { <<>>, <<<<<<"a","u","r","i","c","_","c","h","a","m","p","i","o","n","s">>,
                          StoredDetachment(<<"A","u","r","i","c"," ","C","h","a","m","p","i","o","n","s">>,
                              <<StoredEnhancement(<<"a","u","r","i","c","-","m","a","n","t","l","e">>, <<"A","u","r","i","c"," ","M","a","n","t","l","e">>, 15)>>)>>>> } }

\* Pairs of a fresh dataset and a stored file that vary the units.
UnitReconcileInputs ==
    { <<[units |-> fu, enhancements |-> <<>>, detachments |-> <<>>],
        [units |-> su, detachments |-> <<>>]>> :
        fu \in FreshUnitLists, su \in StoredUnitLists }

\* Pairs that vary the enhancements, around the units of the diff scenario,
\* a unit in the fresh dataset alone and a unit in the stored file alone.
EnhancementReconcileInputs ==
    { <<[units |-> <<FreshUnit(<<"u","1">>, <<"C","u","s","t","o","d","i","a","n"," ","G","u","a","r","d">>, <<<<<<"3">>, 120>>>>),
                     FreshUnit(<<"m","1">>, <<"T","r","a","j","a","n","n"," ","V","a","l","o","r","i","s">>, <<<<<<"1">>, 140>>>>)>>,
         enhancements |-> fe, detachments |-> <<>>],
        [units |-> <<StoredUnit(<<"c","u","s","t","o","d","i","a","n","-","g","u","a","r","d">>, <<"C","u","s","t","o","d","i","a","n"," ","G","u","a","r","d">>, <<<<<<"3">>, 110>>>>),
                     StoredUnit(<<"v","a","l","e","r","i","a","n">>, <<"V","a","l","e","r","i","a","n">>, <<<<<<"1">>, 110>>>>)>>,
         detachments |-> sd]>> :
        fe \in FreshEnhancementLists, sd \in StoredDetachmentDicts }

ReconcileInputs == UnitReconcileInputs \cup EnhancementReconcileInputs

-----------------------------------------------------------------------------
(* Specifications *)

NoElement == Container("none", <<>>)

EmptyDataset == [units |-> <<>>, enhancements |-> <<>>, detachments |-> <<>>]

EmptyWarboard == [units |-> <<>>, detachments |-> <<>>]

\* The entry extractors, each applied to an entry.
InitEntry ==
    /\ pc = "start"
    /\ entry_elem \in EntryInputs
    /\ points = <<>>
    /\ keywords = <<>>
    /\ root = NoElement
    /\ result = EmptyDataset
    /\ bsdata = EmptyDataset
    /\ warboard = EmptyWarboard
    /\ comparison = NewComparison
    /\ updated = EmptyWarboard
    /\ changes = <<>>

ExtractPointsScaling ==
    /\ pc = "start"
    /\ entry_elem # NoElement
    /\ points' = extract_points_scaling(entry_elem)
    /\ pc' = "extract_points_scaling"
    /\ UNCHANGED <<entry_elem, keywords, root, result, bsdata, warboard,
                   comparison, updated, changes>>

ExtractKeywords ==
    /\ pc = "start"
    /\ entry_elem # NoElement
    /\ keywords' = extract_keywords(entry_elem)
    /\ pc' = "extract_keywords"
    /\ UNCHANGED <<entry_elem, points, root, result, bsdata, warboard,
                   comparison, updated, changes>>

NextEntry == ExtractPointsScaling \/ ExtractKeywords

SpecEntry == InitEntry /\ [][NextEntry]_vars

\* The catalog walker, applied to a catalog document.
InitCatalog ==
    /\ pc = "start"
    /\ entry_elem = NoElement
    /\ points = <<>>
    /\ keywords = <<>>
    /\ root \in CatalogInputs
    /\ result = EmptyDataset
    /\ bsdata = EmptyDataset
    /\ warboard = EmptyWarboard
    /\ comparison = NewComparison
    /\ updated = EmptyWarboard
    /\ changes = <<>>

ParseCatalog ==
    /\ pc = "start"
    /\ root # NoElement
    /\ result' = parse_bsdata_catalog(root)
    /\ pc' = "parse_bsdata_catalog"
    /\ UNCHANGED <<entry_elem, points, keywords, root, bsdata, warboard,
                   comparison, updated, changes>>

NextCatalog == ParseCatalog

SpecCatalog == InitCatalog /\ [][NextCatalog]_vars

\* The reconciler: the compare and sync commands on a fresh dataset and the
\* stored file; the file lasts from one command to the next.
InitReconcile ==
    /\ pc = "start"
    /\ entry_elem = NoElement
    /\ points = <<>>
    /\ keywords = <<>>
    /\ root = NoElement
    /\ result = EmptyDataset
    /\ \E input \in ReconcileInputs : bsdata = input[1] /\ warboard = input[2]
    /\ comparison = NewComparison
    /\ updated = EmptyWarboard
    /\ changes = <<>>

Reconciling == bsdata # EmptyDataset \/ warboard # EmptyWarboard

\* The compare command: compare_data returns the comparison or raises.
CompareData ==
    /\ Reconciling
    /\ IF CompareRaises(bsdata, warboard)
       THEN pc' = "ValueError" /\ comparison' = NewComparison
       ELSE pc' = "compare_data" /\ comparison' = compare_data(bsdata, warboard)
    /\ UNCHANGED <<entry_elem, points, keywords, root, result, bsdata, warboard,
                   updated, changes>>

\* The sync command up to its prompt: sync_points returns the patched
\* dataset and the change log.
SyncPoints ==
    /\ Reconciling
    /\ updated' = sync_points(bsdata, warboard).warboard
    /\ changes' = sync_points(bsdata, warboard).changes
    /\ pc' = "sync_points"
    /\ UNCHANGED <<entry_elem, points, keywords, root, result, bsdata, warboard,
                   comparison>>

\* The answer y to the prompt: the patched dataset is written to the file.
ApplyChanges ==
    /\ pc = "sync_points"
    /\ changes # <<>>
    /\ warboard' = updated
    /\ pc' = "applied"
    /\ UNCHANGED <<entry_elem, points, keywords, root, result, bsdata, comparison,
                   updated, changes>>

NextReconcile == CompareData \/ SyncPoints \/ ApplyChanges

SpecReconcile == InitReconcile /\ [][NextReconcile]_vars

-----------------------------------------------------------------------------
(* Properties *)

Parsed == pc = "parse_bsdata_catalog"

\* The text of a positive integer: digits, the first of them not 0.
IsPositiveIntegerText(k) ==
    /\ k # <<>>
    /\ \A i \in 1..Len(k) : IsDigit(k[i])
    /\ k[1] # "0"

\* C1: every Unit of the dataset parse_bsdata_catalog returns has a
\* non-empty PointsTable, and every key of it is the text of a positive
\* integer.
C1_UnitKeysArePositiveIntegers ==
    Parsed =>
        \A i \in 1..Len(result.units) :
            /\ result.units[i].points # <<>>
            /\ \A j \in 1..Len(result.units[i].points) :
                   IsPositiveIntegerText(result.units[i].points[j][1])

\* C2: every Enhancement of the dataset, in the flat list and in every
\* detachment, has a point cost strictly greater than 0.
C2_EnhancementPointsPositive ==
    Parsed =>
        /\ \A i \in 1..Len(result.enhancements) : result.enhancements[i].points > 0
        /\ \A d \in 1..Len(result.detachments) :
               \A i \in 1..Len(result.detachments[d].enhancements) :
                   result.detachments[d].enhancements[i].points > 0

SortedByName(s) == \A i \in 1..(Len(s) - 1) : ~StrLess(s[i + 1].name, s[i].name)

DistinctNames(s) == \A i, j \in 1..Len(s) : i # j => s[i].name # s[j].name

\* kept holds, for every name of collected, the first record of that name.
KeepsEarliest(kept, collected) ==
    /\ \A j \in 1..Len(collected) : \E i \in 1..Len(kept) : kept[i].name = collected[j].name
    /\ \A i \in 1..Len(kept) :
           \E j \in 1..Len(collected) :
               /\ kept[i] = collected[j]
               /\ \A h \in 1..(j - 1) : collected[h].name # collected[j].name

\* C3: the units and the enhancements of the dataset are sorted by name,
\* no two share a name, and of the extracted records of one name the first
\* in document order is kept; the detachments are sorted by name.
C3_SortedDeduplicated ==
    Parsed =>
        /\ SortedByName(result.units) /\ DistinctNames(result.units)
        /\ KeepsEarliest(result.units, Collect(root).units)
        /\ SortedByName(result.enhancements) /\ DistinctNames(result.enhancements)
        /\ KeepsEarliest(result.enhancements, Collect(root).enhancements)
        /\ SortedByName(result.detachments)

\* Two units of one name and different identifiers were extracted, the
\* second of them sorting before a unit of another name, and the
\* detachments of the dataset repeat a name.
C3_Witness ==
    /\ Parsed
    /\ \E i, j \in 1..Len(Collect(root).units) :
           /\ i < j
           /\ Collect(root).units[i].name = Collect(root).units[j].name
           /\ Collect(root).units[i].id # Collect(root).units[j].id
    /\ Len(result.units) >= 2
    /\ ~DistinctNames(result.detachments)

-----------------------------------------------------------------------------
(* Properties of extract_points_scaling *)

PointsExtracted == pc = "extract_points_scaling"

\* The direct costs of the entry that are on the points type.
C4_PointsCosts(e) ==
    LET costs == FindPath(e, "costs", "cost")
    IN  SelectSeq(costs, LAMBDA c : AttrIs(c, "typeId", POINTS_TYPE_ID)
                                    \/ AttrIs(c, "name", <<"p","t","s">>))

\* The entry has one cost on the points type, and it is positive.
C4_HasBaseCost(e) ==
    /\ Len(C4_PointsCosts(e)) = 1
    /\ IntOfFloatStr(Get(C4_PointsCosts(e)[1], "value", <<"0">>)) > 0

C4_BaseCost(e) == IntOfFloatStr(Get(C4_PointsCosts(e)[1], "value", <<"0">>))

\* m: the value of the first descendant min/selections constraint, else 1.
C4_BaseCount(e) ==
    LET cs == FindAll(e, "constraint")
        hits == { i \in 1..Len(cs) : /\ AttrIs(cs[i], "type", <<"m","i","n">>)
                                     /\ AttrIs(cs[i], "field", <<"s","e","l","e","c","t","i","o","n","s">>) }
        first == CHOOSE i \in hits : \A j \in hits : i <= j
    IN  IF hits = {} THEN 1 ELSE IntOfStr(Get(cs[first], "value", <<"1">>))

\* The keys one modifier sets, with its cost: one for each of its
\* selections conditions with a non-empty value, when it is a "set" on the
\* points type with a positive cost.
C4_ModifierWrites(m) ==
    LET p == IntOfFloatStr(Get(m, "value", <<"0">>))
        conds == SelectSeq(FindAll(m, "condition"),
                           LAMBDA c : /\ Contains(<<"s","e","l","e","c","t","i","o","n","s">>, Get(c, "field", <<>>))
                                      /\ Get(c, "value", <<>>) # <<>>)
    IN  IF AttrIs(m, "type", <<"s","e","t">>) /\ AttrIs(m, "field", POINTS_TYPE_ID) /\ p > 0
        THEN [i \in 1..Len(conds) |-> <<Get(conds[i], "value", <<>>), p>>]
        ELSE <<>>

\* The base entry, then the modifiers' in document order.
C4_Writes(e) ==
    LET mods == FindAll(e, "modifier")
    IN  <<<<StrOfInt(C4_BaseCount(e)), C4_BaseCost(e)>>>>
        \o Flatten([i \in 1..Len(mods) |-> C4_ModifierWrites(mods[i])])

\* t is the table the writes w leave: the keys written, each with the value
\* of its last write.
C4_TableOf(t, w) ==
    /\ \A i, j \in 1..Len(t) : i # j => t[i][1] # t[j][1]
    /\ \A i \in 1..Len(t) : \E j \in 1..Len(w) : w[j][1] = t[i][1]
    /\ \A j \in 1..Len(w) :
           \E i \in 1..Len(t) :
               /\ t[i][1] = w[j][1]
               /\ (\A h \in (j + 1)..Len(w) : w[h][1] # w[j][1]) => t[i][2] = w[j][2]

\* Base 100 with a minimum of 5 and one modifier 190 under selections = 10.
C4_ScenarioEntry ==
    UnitEntry(EntryChildren(<<PtsCost(<<"1","0","0">>)>>, <<MinSel(<<"5">>)>>,
                            <<SetPts(<<"1","9","0">>, <<Sel(<<"1","0">>)>>)>>, <<>>, FALSE))

\* C4: for an entry with a positive base cost B, the table has B under
\* str(m), m the first descendant min/selections constraint's value or 1,
\* and then every "set" modifier on the points type with positive cost p has
\* set p under its selections condition's value, in document order, a later
\* write replacing an earlier one; the scenario gives {"5": 100, "10": 190}.
C4_BaseThenModifiers ==
    PointsExtracted =>
        /\ C4_HasBaseCost(entry_elem) => C4_TableOf(points, C4_Writes(entry_elem))
        /\ entry_elem = C4_ScenarioEntry => points = <<<<<<"5">>, 100>>, <<<<"1","0">>, 190>>>>

\* A base cost under a minimum other than 1, replaced by a modifier on the
\* same key.
C4_Witness ==
    /\ PointsExtracted
    /\ C4_HasBaseCost(entry_elem)
    /\ C4_BaseCount(entry_elem) = 5
    /\ \E j \in 2..Len(C4_Writes(entry_elem)) :
           /\ C4_Writes(entry_elem)[j][1] = <<"5">>
           /\ C4_Writes(entry_elem)[j][2] # C4_BaseCost(entry_elem)
    /\ DictAt(points, <<"5">>) # C4_BaseCost(entry_elem)

\* The value of the first condition of m whose field contains "selections",
\* as a set: empty without such a condition.
C10_FirstSelectionsValue(m) ==
    LET conds == SelectSeq(FindAll(m, "condition"),
                           LAMBDA c : Contains(<<"s","e","l","e","c","t","i","o","n","s">>, Get(c, "field", <<>>)))
    IN  IF conds = <<>> THEN {} ELSE {Get(conds[1], "value", <<>>)}

\* C10: a "set" modifier on the points type contributes at most one key, the
\* value of its first selections condition: every key of the table is the
\* base key or the first selections value of such a modifier.
C10_FirstSelectionsConditionOnly ==
    PointsExtracted =>
        LET mods == SelectSeq(FindAll(entry_elem, "modifier"),
                              LAMBDA m : /\ AttrIs(m, "type", <<"s","e","t">>)
                                         /\ AttrIs(m, "field", POINTS_TYPE_ID))
        IN  \A i \in 1..Len(points) :
                \/ /\ C4_PointsCosts(entry_elem) # <<>>
                   /\ points[i][1] = StrOfInt(C4_BaseCount(entry_elem))
                \/ \E j \in 1..Len(mods) : points[i][1] \in C10_FirstSelectionsValue(mods[j])

-----------------------------------------------------------------------------
(* Properties of extract_keywords *)

KeywordsExtracted == pc = "extract_keywords"

\* The names of the category links under the entry, in document order; a
\* link without a name has the empty name.
C9_LinkNames(e) ==
    LET links == FindAll(e, "categoryLink")
    IN  [i \in 1..Len(links) |-> Get(links[i], "name", <<>>)]

C9_Retained(e) ==
    SelectSeq(C9_LinkNames(e),
              LAMBDA n : n # <<>> /\ n # <<"C","o","n","f","i","g","u","r","a","t","i","o","n">> /\ n # <<"F","a","c","t","i","o","n",":">>)

\* k is n without a leading "Faction:" and the whitespace after it.
C9_IsStripped(n, k) ==
    IF Len(n) >= 8 /\ SubSeq(n, 1, 8) = <<"F","a","c","t","i","o","n",":">>
    THEN \E w \in 0..(Len(n) - 8) :
             /\ \A i \in 9..(8 + w) : n[i] \in {" ", "\t"}
             /\ k = SubSeq(n, 9 + w, Len(n))
             /\ (k = <<>> \/ k[1] \notin {" ", "\t"})
    ELSE k = n

\* C9: the keywords are, in document order, the names of the category links
\* that are not empty, not "Configuration" and not "Faction:", each without
\* a leading "Faction:" and the whitespace after it.
C9_KeywordsFiltered ==
    KeywordsExtracted =>
        /\ Len(keywords) = Len(C9_Retained(entry_elem))
        /\ \A i \in 1..Len(keywords) :
               C9_IsStripped(C9_Retained(entry_elem)[i], keywords[i])

\* The links Configuration, Faction: Adeptus Custodes, Infantry.
C9_Witness ==
    /\ KeywordsExtracted
    /\ C9_LinkNames(entry_elem)
           = <<<<"C","o","n","f","i","g","u","r","a","t","i","o","n">>, <<"F","a","c","t","i","o","n",":"," ","A","d","e","p","t","u","s"," ","C","u","s","t","o","d","e","s">>, <<"I","n","f","a","n","t","r","y">>>>
    /\ keywords = <<<<"A","d","e","p","t","u","s"," ","C","u","s","t","o","d","e","s">>, <<"I","n","f","a","n","t","r","y">>>>

-----------------------------------------------------------------------------
(* Properties of compare_data *)

Compared == pc = "compare_data"

\* The positions of the fresh units of the name, at most one.
FreshOf(name) == { j \in 1..Len(bsdata.units) : bsdata.units[j].name = name }

\* The stored units whose name is a fresh unit name.
StoredInFresh == { i \in 1..Len(warboard.units) : FreshOf(warboard.units[i].name) # {} }

\* The key of the table whose integer value is the least.
C5_SmallestKey(t) ==
    CHOOSE k \in { t[i][1] : i \in 1..Len(t) } :
        \A i \in 1..Len(t) : IntOfStr(k) <= IntOfStr(t[i][1])

C5_ValueAt(t, k) == t[CHOOSE i \in 1..Len(t) : t[i][1] = k][2]

C5_StoredValue(i) ==
    C5_ValueAt(warboard.units[i].points, C5_SmallestKey(warboard.units[i].points))

\* The fresh value at the stored table's smallest key, or the lowest value
\* of the fresh table when it lacks the key.
C5_FreshValue(i) ==
    LET k == C5_SmallestKey(warboard.units[i].points)
        t == bsdata.units[CHOOSE j \in FreshOf(warboard.units[i].name) : TRUE].points
    IN  IF \E h \in 1..Len(t) : t[h][1] = k
        THEN C5_ValueAt(t, k)
        ELSE CHOOSE v \in { t[h][2] : h \in 1..Len(t) } : \A h \in 1..Len(t) : v <= t[h][2]

C5_Differences(name) ==
    { d \in 1..Len(comparison.unit_differences) : comparison.unit_differences[d].name = name }

\* C5: every stored unit whose name is a fresh unit name contributes exactly
\* one of a mismatch entry {name, stored value, fresh value}, when the value
\* at the stored table's numerically smallest key differs from the fresh
\* value at that key (the lowest fresh value when the key is missing), and
\* an increment of the match counter, when they are equal.
C5_MismatchOrMatch ==
    Compared =>
        /\ \A i \in StoredInFresh :
               IF C5_StoredValue(i) # C5_FreshValue(i)
               THEN /\ Cardinality(C5_Differences(warboard.units[i].name)) = 1
                    /\ \A d \in C5_Differences(warboard.units[i].name) :
                           comparison.unit_differences[d]
                               = [name |-> warboard.units[i].name,
                                  warboard |-> C5_StoredValue(i),
                                  bsdata |-> C5_FreshValue(i)]
               ELSE C5_Differences(warboard.units[i].name) = {}
        /\ Len(comparison.unit_differences)
               = Cardinality({ i \in StoredInFresh : C5_StoredValue(i) # C5_FreshValue(i) })
        /\ comparison.matching_units
               = Cardinality({ i \in StoredInFresh : C5_StoredValue(i) = C5_FreshValue(i) })

\* One stored unit matches; another, whose smallest key is not the first
\* key of its table in text order and is missing from the fresh table, is
\* reported with the lowest fresh value.
C5_Witness ==
    /\ Compared
    /\ comparison.matching_units = 1
    /\ \E i \in StoredInFresh :
           /\ warboard.units[i].points = <<<<<<"1","0">>, 110>>, <<<<"3">>, 120>>>>
           /\ bsdata.units[CHOOSE j \in FreshOf(warboard.units[i].name) : TRUE].points
                  = <<<<<<"5">>, 120>>, <<<<"1","0">>, 110>>>>
           /\ comparison.unit_differences
                  = <<[name |-> warboard.units[i].name, warboard |-> 120, bsdata |-> 110]>>

StoredNames == { warboard.units[i].name : i \in 1..Len(warboard.units) }

FreshNames == { bsdata.units[j].name : j \in 1..Len(bsdata.units) }

C6_MissingInFresh(name) ==
    { m \in 1..Len(comparison.missing_in_bsdata) :
        comparison.missing_in_bsdata[m].name = name }

\* The unit entries of the missing-in-stored list.
C6_UnitEntries ==
    { m \in 1..Len(comparison.missing_in_warboard) :
        comparison.missing_in_warboard[m].type = "unit" }

C6_MissingInStored(name) ==
    { m \in C6_UnitEntries : comparison.missing_in_warboard[m].name = name }

\* C6: every stored unit name that is not a fresh unit name is once in the
\* missing-in-fresh list, every fresh unit name that is not a stored unit
\* name is once in the missing-in-stored list, with the fresh unit's
\* PointsTable, and a unit name of both sides is in neither list.
C6_MissingLists ==
    Compared =>
        /\ \A n \in StoredNames \ FreshNames : Cardinality(C6_MissingInFresh(n)) = 1
        /\ \A m \in 1..Len(comparison.missing_in_bsdata) :
               /\ comparison.missing_in_bsdata[m].name \in StoredNames \ FreshNames
               /\ comparison.missing_in_bsdata[m].type = "unit"
        /\ \A j \in 1..Len(bsdata.units) :
               bsdata.units[j].name \notin StoredNames =>
                   /\ Cardinality(C6_MissingInStored(bsdata.units[j].name)) = 1
                   /\ \A m \in C6_MissingInStored(bsdata.units[j].name) :
                          comparison.missing_in_warboard[m].points = bsdata.units[j].points
        /\ \A m \in C6_UnitEntries :
               comparison.missing_in_warboard[m].name \in FreshNames \ StoredNames

\* A unit of the stored file alone, a unit of the fresh dataset alone and a
\* unit of both.
C6_Witness ==
    /\ Compared
    /\ StoredNames \ FreshNames # {}
    /\ FreshNames \ StoredNames # {}
    /\ StoredNames \cap FreshNames # {}
    /\ comparison.missing_in_bsdata # <<>>
    /\ C6_UnitEntries # {}

-----------------------------------------------------------------------------
(* Properties of sync_points *)

Synced == pc = "sync_points"

\* The fresh table of the stored unit i, whose name is a fresh unit name.
FreshTableOf(i) ==
    bsdata.units[CHOOSE j \in FreshOf(warboard.units[i].name) : TRUE].points

\* The stored value of unit i at the key differs from the value v: it is
\* another value, or the stored table has no such key.
C7_Differs(i, k, v) ==
    \A h \in 1..Len(warboard.units[i].points) :
        warboard.units[i].points[h][1] = k => warboard.units[i].points[h][2] # v

\* The text of the stored value of unit i at the key.
C7_OldText(i, k) ==
    LET t == warboard.units[i].points
    IN  IF \E h \in 1..Len(t) : t[h][1] = k
        THEN StrOfInt(C5_ValueAt(t, k))
        ELSE <<"N","o","n","e">>

EndsWith(s, suffix) ==
    Len(s) >= Len(suffix) /\ SubSeq(s, Len(s) - Len(suffix) + 1, Len(s)) = suffix

\* The lines of the change log for the unit and the key.
C7_LinesFor(name, k) ==
    { c \in 1..Len(changes) :
        StartsWith(changes[c], <<"U","n","i","t"," ","'">> \o name \o <<"'"," ","(">> \o k \o <<" ","m","o","d","e","l","s",")">>) }

C7_UnitLines == { c \in 1..Len(changes) : StartsWith(changes[c], <<"U","n","i","t"," ","'">>) }

\* The pairs of a stored unit and a position of its fresh table whose fresh
\* value differs from the stored value at that key.
C7_DifferingPairs ==
    UNION { { <<i, h>> : h \in { g \in 1..Len(FreshTableOf(i)) :
                                   C7_Differs(i, FreshTableOf(i)[g][1],
                                              FreshTableOf(i)[g][2]) } } :
            i \in StoredInFresh }

\* C7: for every stored unit whose name is a fresh unit name and every key
\* of the fresh table, the patched table has the fresh value at the key; when
\* the stored value differed, the change log has exactly one line for the
\* unit and the key, naming the old and the new value, and when it agreed
\* the log has none; there are as many unit lines as differing pairs.
C7_PatchedAndLogged ==
    Synced =>
        /\ \A i \in StoredInFresh :
               \A h \in 1..Len(FreshTableOf(i)) :
                   LET k == FreshTableOf(i)[h][1]
                       v == FreshTableOf(i)[h][2]
                       lines == C7_LinesFor(warboard.units[i].name, k)
                   IN  /\ \E g \in 1..Len(updated.units[i].points) :
                              updated.units[i].points[g] = <<k, v>>
                       /\ IF C7_Differs(i, k, v)
                          THEN /\ Cardinality(lines) = 1
                               /\ \A c \in lines :
                                      EndsWith(changes[c],
                                               <<":"," ">> \o C7_OldText(i, k) \o <<" ","-",">"," ">> \o StrOfInt(v))
                          ELSE lines = {}
        /\ Cardinality(C7_UnitLines) = Cardinality(C7_DifferingPairs)

\* Stored {"3": 110} against fresh {"3": 120}: points["3"] is 120 and the
\* log has the line with 110 and 120.
C7_Witness ==
    /\ Synced
    /\ \E i \in StoredInFresh :
           /\ warboard.units[i].name = <<"C","u","s","t","o","d","i","a","n"," ","G","u","a","r","d">>
           /\ warboard.units[i].points = <<<<<<"3">>, 110>>>>
           /\ FreshTableOf(i) = <<<<<<"3">>, 120>>>>
           /\ updated.units[i].points = <<<<<<"3">>, 120>>>>
    /\ \E c \in 1..Len(changes) :
           changes[c] = <<"U","n","i","t"," ","'","C","u","s","t","o","d","i","a","n"," ","G","u","a","r","d","'"," ","(","3"," ","m","o","d","e","l","s",")",":"," ","1","1","0"," ","-",">"," ","1","2","0">>

FreshEnhancementNames == { bsdata.enhancements[j].name : j \in 1..Len(bsdata.enhancements) }

\* x and y are one record but for their points.
C8_SameButPoints(x, y) == [x EXCEPT !.points = y.points] = y

\* C8: sync_points changes point values only: the stored units,
\* detachments and enhancements are as many and in the same order, each
\* with its name and other fields, and a unit or an enhancement whose name
\* has no fresh counterpart is unchanged.
C8_OnlyPointsChange ==
    Synced =>
        /\ Len(updated.units) = Len(warboard.units)
        /\ \A i \in 1..Len(warboard.units) :
               /\ C8_SameButPoints(updated.units[i], warboard.units[i])
               /\ warboard.units[i].name \notin FreshNames
                      => updated.units[i] = warboard.units[i]
        /\ Len(updated.detachments) = Len(warboard.detachments)
        /\ \A d \in 1..Len(warboard.detachments) :
               LET old == warboard.detachments[d][2]
                   new == updated.detachments[d][2]
               IN  /\ updated.detachments[d][1] = warboard.detachments[d][1]
                   /\ [new EXCEPT !.enhancements = old.enhancements] = old
                   /\ Len(new.enhancements) = Len(old.enhancements)
                   /\ \A e \in 1..Len(old.enhancements) :
                          /\ C8_SameButPoints(new.enhancements[e], old.enhancements[e])
                          /\ old.enhancements[e].name \notin FreshEnhancementNames
                                 => new.enhancements[e] = old.enhancements[e]

\* A unit and an enhancement were patched beside a unit and an enhancement
\* without a fresh counterpart.
C8_Witness ==
    /\ Synced
    /\ \E i \in 1..Len(warboard.units) : updated.units[i].points # warboard.units[i].points
    /\ \E i \in 1..Len(warboard.units) : warboard.units[i].name \notin FreshNames
    /\ \E d \in 1..Len(warboard.detachments) :
           LET old == warboard.detachments[d][2].enhancements
               new == updated.detachments[d][2].enhancements
           IN  /\ \E e \in 1..Len(old) : new[e].points # old[e].points
               /\ \E e \in 1..Len(old) : old[e].name \notin FreshEnhancementNames

-----------------------------------------------------------------------------
(* The detachment container *)

\* The detachment containers of the document.
C11_Containers ==
    SelectSeq(Iter(root, "selectionEntry"),
              LAMBDA e : AttrIs(e, "type", <<"u","p","g","r","a","d","e">>) /\ AttrIs(e, "name", <<"D","e","t","a","c","h","m","e","n","t","s">>))

\* The upgrade entries one level below the container e.
C11_OwnUpgrades(e) ==
    SelectSeq(FindPath(e, "selectionEntries", "selectionEntry"), IsUpgradeEntry)

\* The identifiers of the containers' own upgrade entries that have a name
\* and a rule name.
C11_OwnDetachmentIds ==
    UNION { { Get(C11_OwnUpgrades(C11_Containers[c])[k], "id", <<>>) :
                k \in { k \in 1..Len(C11_OwnUpgrades(C11_Containers[c])) :
                          LET d == C11_OwnUpgrades(C11_Containers[c])[k]
                          IN  Get(d, "name", <<>>) # <<>> /\ RuleName(d) # <<>> } } :
            c \in 1..Len(C11_Containers) }

\* C11: the Detachments of the dataset are the detachment containers' own
\* (one level down) upgrade entries that resolved a non-empty rule name, and
\* no upgrade entry nested deeper.
C11_OnlyOwnUpgradesAreDetachments ==
    Parsed =>
        { result.detachments[i].id : i \in 1..Len(result.detachments) }
            = C11_OwnDetachmentIds

-----------------------------------------------------------------------------
(* The keys of the patched tables *)

C12_Keys(table) == { table[h][1] : h \in 1..Len(table) }

\* The keys of the fresh table of the stored unit i, none when the name is
\* no fresh unit name.
C12_FreshKeys(i) == IF i \in StoredInFresh THEN C12_Keys(FreshTableOf(i)) ELSE {}

\* The statement that no key is added and none removed.
C12_KeysUnchanged ==
    Synced =>
        \A i \in 1..Len(warboard.units) :
            C12_Keys(updated.units[i].points) = C12_Keys(warboard.units[i].points)

\* C12: sync_points removes no key and moves none: every stored key stays at
\* its place in the table, and the keys after the merge are the stored keys
\* together with the keys of the fresh table of the unit of that name, a key
\* of the fresh table alone being added with the fresh value.
C12_KeysKeptFreshKeysAdded ==
    Synced =>
        \A i \in 1..Len(warboard.units) :
            LET old == warboard.units[i].points
                new == updated.units[i].points
            IN  /\ Len(new) >= Len(old)
                /\ \A h \in 1..Len(old) : new[h][1] = old[h][1]
                /\ C12_Keys(new) = C12_Keys(old) \cup C12_FreshKeys(i)
                /\ \A k \in C12_FreshKeys(i) \ C12_Keys(old) :
                       C5_ValueAt(new, k) = C5_ValueAt(FreshTableOf(i), k)

\* A stored table of two keys was patched with a fresh table that has one
\* of them and a key of its own.
C12_Witness ==
    /\ Synced
    /\ \E i \in StoredInFresh :
           /\ Len(warboard.units[i].points) = 2
           /\ C12_Keys(FreshTableOf(i)) \cap C12_Keys(warboard.units[i].points) # {}
           /\ C12_Keys(FreshTableOf(i)) \ C12_Keys(warboard.units[i].points) # {}
           /\ C12_Keys(warboard.units[i].points) \ C12_Keys(FreshTableOf(i)) # {}
           /\ Len(updated.units[i].points) = 3

-----------------------------------------------------------------------------
(* The diff of the patched dataset *)

\* compare_data has returned and the stored dataset is the one sync_points
\* returned for it: the patched file, or a file the merge left as it was.
C13_ComparedPatched ==
    /\ Compared
    /\ warboard = updated
    /\ \A i \in 1..Len(warboard.units) : warboard.units[i].points # <<>>

\* The stored units of a fresh name whose smallest key is a key of the fresh
\* table.
C13_SmallestKeyIsFresh ==
    { i \in StoredInFresh :
        C5_SmallestKey(warboard.units[i].points) \in C12_Keys(FreshTableOf(i)) }

\* The statement that the diff of the patched dataset has no unit mismatch.
C13_MergeThenDiffClean ==
    C13_ComparedPatched =>
        /\ comparison.unit_differences = <<>>
        /\ comparison.matching_units = Cardinality(StoredInFresh)

\* C13: the diff of the patched dataset has no mismatch entry for a stored
\* unit whose numerically smallest key is a key of the fresh table of its
\* name, and counts every such unit as matching; the mismatch entries that
\* remain are of units whose smallest key the fresh table lacks.
C13_CleanAtFreshKeys ==
    C13_ComparedPatched =>
        /\ \A i \in C13_SmallestKeyIsFresh : C5_Differences(warboard.units[i].name) = {}
        /\ \A d \in 1..Len(comparison.unit_differences) :
               \E i \in StoredInFresh \ C13_SmallestKeyIsFresh :
                   warboard.units[i].name = comparison.unit_differences[d].name
        /\ comparison.matching_units
               = Cardinality(StoredInFresh) - Len(comparison.unit_differences)
        /\ comparison.matching_units >= Cardinality(C13_SmallestKeyIsFresh)

\* The merge patched a unit, the patched dataset was written and its diff
\* counts the unit as matching.
C13_Witness ==
    /\ C13_ComparedPatched
    /\ \E c \in 1..Len(changes) : StartsWith(changes[c], <<"U","n","i","t"," ">>)
    /\ C13_SmallestKeyIsFresh # {}
    /\ comparison.matching_units >= 1

====
